---- MODULE Spec2Model ----
(***************************************************************************)
(* Model of shp_handler.py: the ShpHandler class (field-name mapping,      *)
(* spatial join with value merging, progress, failure cleanup, to_zip).    *)
(*                                                                         *)
(* Attribute values are tagged records: Python None, an int, or a str held *)
(* as a sequence of one-character strings.  Field names are TLA+ strings.  *)
(* Geometries are sets of grid cells, already expressed in the            *)
(* destination's reference system; the empty set stands for "no geometry". *)
(***************************************************************************)
EXTENDS Integers, Sequences, FiniteSets, TLC

VARIABLES
    \* one mapped field under successive merges (specification SpecMerge)
    field_val,      \* current value of the mapped field of one feature
    sep,            \* the separator passed to spatial_join
    mlog,           \* one record per merge step applied so far
    \* a destination handler and its joins (specifications Spec, SpecFields)
    pc,             \* position inside spatial_join / _set_for_join_fields
    calls,          \* calls started on this destination handler
    field_names,    \* self._field_names of the destination handler
    other_field_names,  \* other._field_names of the source handler
    joined_fields,  \* the joined_fields / fields argument: None or a list
    keys,           \* iteration order of forjoinfields_dict in this call
    forjoinfields_dict, \* source field name -> destination field name
    names_before,   \* self._field_names when the current call started
    first_dict,     \* the first mapping built on this handler (None until built)
    dest_layer,     \* self._layer: the destination's features
    src_layer,      \* other._layer: the source's features
    layer_copy,     \* the features of the output dataset
    output_exists,  \* os.path.exists(_path_to_new_ds)
    forjoin_features,   \* the materialized source features
    feature_count,  \* layer_copy.GetFeatureCount(), read once
    n,              \* destination features visited so far
    progress_log,   \* one record per progress value computed
    \* one to_zip call (specification SpecZip)
    zpc,            \* position inside to_zip
    zdir,           \* the file names in the directory of path_to_shp
    delete_files,   \* the delete_files argument
    todo,           \* directory entries the loop has not visited yet
    archive,        \* names written into the archive so far
    originals       \* the dataset's files when to_zip was called

mvars == <<field_val, sep, mlog>>
fvars == <<pc, calls, field_names, other_field_names, joined_fields, keys,
           forjoinfields_dict, names_before, first_dict>>
jvars == <<dest_layer, src_layer, layer_copy, output_exists, forjoin_features,
           feature_count, n, progress_log>>
zvars == <<zpc, zdir, delete_files, todo, archive, originals>>
vars == <<mvars, fvars, jvars, zvars>>

-----------------------------------------------------------------------------
(* Bounds *)

MaxLen == 2      \* longest source string value
MaxMerges == 3   \* merge steps applied to one field
MaxFields == 3   \* longest list of source field names
MaxMapCalls == 2 \* successive mapping builds on one handler
MaxDest == 2     \* destination features
MaxSrc == 2      \* source features
MaxCalls == 2    \* spatial_join calls on one destination handler

-----------------------------------------------------------------------------
(* Python values *)

None == [t |-> "none"]
PyStr(s) == [t |-> "str", v |-> s]
PyInt(i) == [t |-> "int", i |-> i]

\* Truth value of a Python object, as tested by `if forjoin_val:` and `if v`.
Truthy(x) ==
    CASE x.t = "none" -> FALSE
      [] x.t = "int" -> x.i # 0
      [] x.t = "str" -> x.v # <<>>

DigitChar(d) ==
    CASE d = 0 -> "0" [] d = 1 -> "1" [] d = 2 -> "2" [] d = 3 -> "3"
      [] d = 4 -> "4" [] d = 5 -> "5" [] d = 6 -> "6" [] d = 7 -> "7"
      [] d = 8 -> "8" [] d = 9 -> "9"

RECURSIVE Digits(_)
Digits(i) == IF i < 10 THEN <<DigitChar(i)>>
             ELSE Append(Digits(i \div 10), DigitChar(i % 10))

\* str(x): the characters of x's string form.
str(x) ==
    CASE x.t = "str" -> x.v
      [] x.t = "int" -> IF x.i < 0 THEN <<"-">> \o Digits(0 - x.i) ELSE Digits(x.i)
      [] x.t = "none" -> <<"N", "o", "n", "e">>

\* Code point of a character, for str comparison.
Ord(c) ==
    CASE c = " " -> 32 [] c = "," -> 44 [] c = "-" -> 45
      [] c = "0" -> 48 [] c = "1" -> 49 [] c = "2" -> 50 [] c = "3" -> 51
      [] c = "4" -> 52 [] c = "5" -> 53 [] c = "6" -> 54 [] c = "7" -> 55
      [] c = "8" -> 56 [] c = "9" -> 57 [] c = ";" -> 59
      [] c = "A" -> 65 [] c = "B" -> 66 [] c = "N" -> 78
      [] c = "a" -> 97 [] c = "b" -> 98 [] c = "e" -> 101
      [] c = "n" -> 110 [] c = "o" -> 111

LowerChar(c) ==
    CASE c = "A" -> "a" [] c = "B" -> "b" [] c = "N" -> "n" [] OTHER -> c

\* s.lower()
lower(s) == [i \in 1..Len(s) |-> LowerChar(s[i])]

\* s < t for Python str: lexicographic by code point, a proper prefix first.
RECURSIVE StrLess(_, _)
StrLess(s, t) ==
    IF t = <<>> THEN FALSE
    ELSE IF s = <<>> THEN TRUE
    ELSE IF Ord(Head(s)) # Ord(Head(t)) THEN Ord(Head(s)) < Ord(Head(t))
    ELSE StrLess(Tail(s), Tail(t))

\* sub in s
Contains(s, sub) ==
    \E i \in 0..(Len(s) - Len(sub)) : SubSeq(s, i + 1, i + Len(sub)) = sub

IsSpace(c) == c = " "

RECURSIVE LStrip(_)
LStrip(s) == IF s # <<>> /\ IsSpace(Head(s)) THEN LStrip(Tail(s)) ELSE s

RECURSIVE RStrip(_)
RStrip(s) == IF s # <<>> /\ IsSpace(s[Len(s)])
             THEN RStrip(SubSeq(s, 1, Len(s) - 1)) ELSE s

\* s.strip()
strip(s) == RStrip(LStrip(s))

\* glue.join(parts)
RECURSIVE Join(_, _)
Join(glue, parts) ==
    IF parts = <<>> THEN <<>>
    ELSE IF Len(parts) = 1 THEN parts[1]
    ELSE parts[1] \o glue \o Join(glue, Tail(parts))

\* Insert x into the sorted list after every element whose key is <= its key.
RECURSIVE InsertByLower(_, _)
InsertByLower(sorted, x) ==
    IF sorted = <<>> THEN <<x>>
    ELSE IF StrLess(lower(x), lower(Head(sorted))) THEN <<x>> \o sorted
    ELSE <<Head(sorted)>> \o InsertByLower(Tail(sorted), x)

\* vals.sort(key=lambda s: s.lower()): a stable sort.
RECURSIVE SortByLower(_)
SortByLower(vals) ==
    IF vals = <<>> THEN <<>>
    ELSE InsertByLower(SortByLower(SubSeq(vals, 1, Len(vals) - 1)), vals[Len(vals)])

-----------------------------------------------------------------------------
(* The merge of one mapped field (spatial_join, lines 147-156) *)

\* The value the field holds after the step: the old value on `continue`,
\* otherwise what SetField receives.
MergeField(tojoin_val, forjoin_val, separator) ==
    LET fv == IF Truthy(forjoin_val) THEN PyStr(str(forjoin_val)) ELSE forjoin_val
        vals == SelectSeq(<<tojoin_val, fv>>, Truthy)
        strs == [i \in 1..Len(vals) |-> str(vals[i])]
    IN  IF Truthy(forjoin_val) /\ Truthy(tojoin_val) /\ Contains(tojoin_val.v, fv.v)
        THEN tojoin_val
        ELSE PyStr(strip(Join(separator \o <<" ">>, SortByLower(strs))))

-----------------------------------------------------------------------------
(* Specification SpecMerge: successive source values merged into one field *)

ValueChars == {"a", "B", " "}

Strings(k) == UNION {[1..m -> ValueChars] : m \in 0..k}

\* Values a source feature can hold in a field: null, numbers, strings.
SourceValues == {None, PyInt(0), PyInt(1)} \cup {PyStr(s) : s \in Strings(MaxLen)}

Separators == {<<",">>, <<";">>}

\* The handler variables while no handler is modelled.
NoHandler ==
    /\ pc = "none"
    /\ calls = 0
    /\ field_names = {}
    /\ other_field_names = {}
    /\ joined_fields = None
    /\ keys = <<>>
    /\ forjoinfields_dict = <<>>
    /\ names_before = {}
    /\ first_dict = None
    /\ dest_layer = <<>>
    /\ src_layer = <<>>
    /\ layer_copy = <<>>
    /\ output_exists = FALSE
    /\ forjoin_features = <<>>
    /\ feature_count = 0
    /\ n = 0
    /\ progress_log = <<>>

\* The to_zip variables while no to_zip call is modelled.
NoZip ==
    /\ zpc = "none"
    /\ zdir = {}
    /\ delete_files = FALSE
    /\ todo = {}
    /\ archive = {}
    /\ originals = {}

InitMerge ==
    /\ field_val = None          \* a freshly created field is null
    /\ sep \in Separators
    /\ mlog = <<>>
    /\ NoHandler
    /\ NoZip

\* One pass of the loop body at lines 146-156 for one field and one match.
MergeStep ==
    /\ Len(mlog) < MaxMerges
    /\ \E v \in SourceValues :
         /\ field_val' = MergeField(field_val, v, sep)
         /\ mlog' = Append(mlog, [e |-> field_val, v |-> v, r |-> field_val'])
    /\ UNCHANGED <<sep, fvars, jvars, zvars>>

NextMerge == MergeStep

SpecMerge == InitMerge /\ [][NextMerge]_vars

-----------------------------------------------------------------------------
(* _set_for_join_fields (lines 78-100) *)

PyList(l) == [t |-> "list", v |-> l]

Range(f) == {f[x] : x \in DOMAIN f}

\* f'new{name_num}'
NewName(name_num) == "new" \o ToString(name_num)

\* An `if` in place of the `while` of line 93.
FreshNameOnce(new_name, name_num, names) ==
    IF new_name \in names THEN NewName(name_num + 1) ELSE new_name

\* The generated name formatted before the counter is incremented.
RECURSIVE FreshNameFromZero(_, _, _)
FreshNameFromZero(new_name, name_num, names) ==
    IF new_name \in names
    THEN FreshNameFromZero(NewName(name_num), name_num + 1, names)
    ELSE new_name

\* The while loop of lines 93-95, entered with new_name and name_num.
RECURSIVE FreshName(_, _, _)
FreshName(new_name, name_num, names) ==
    IF new_name \in names
    THEN FreshName(NewName(name_num + 1), name_num + 1, names)
    ELSE new_name

\* The keys of {f: f for f in l}, in insertion order: first occurrences.
RECURSIVE DictKeys(_)
DictKeys(l) ==
    IF l = <<>> THEN <<>>
    ELSE LET rest == DictKeys(SubSeq(l, 1, Len(l) - 1))
         IN  IF l[Len(l)] \in Range(rest) THEN rest ELSE Append(rest, l[Len(l)])

\* The orders in which a set can be iterated.
Orders(S) ==
    {o \in [1..Cardinality(S) -> S] : \A i, j \in DOMAIN o : i # j => o[i] # o[j]}

\* The for loop of lines 90-99 over the remaining keys; name_num is reset to
\* 0 for every field (line 92), field_names is the handler's own set.
RECURSIVE JoinFieldsLoop(_, _, _)
JoinFieldsLoop(ks, names, dict) ==
    IF ks = <<>> THEN [dict |-> dict, field_names |-> names]
    ELSE LET field == Head(ks)
             new_name == FreshName(dict[field], 0, names)
         IN  JoinFieldsLoop(Tail(ks), names \cup {new_name},
                            [dict EXCEPT ![field] = new_name])

\* _set_for_join_fields on a handler whose _field_names is `names`, with the
\* dict built at lines 86-89 iterated in the order ks.
SetForJoinFields(names, ks) ==
    JoinFieldsLoop(ks, names, [f \in Range(ks) |-> f])

\* The key orders lines 86-89 can produce.
KeyOrders(fields, other_names) ==
    IF fields = None THEN Orders(other_names) ELSE {DictKeys(fields.v)}

-----------------------------------------------------------------------------
(* Specification SpecFields: _set_for_join_fields on arbitrary schemas *)

FieldNames == {"name", "id", "new1", "new2"}

FieldLists == UNION {[1..m -> FieldNames] : m \in 0..MaxFields}

NoMerge ==
    /\ field_val = None
    /\ sep = <<",">>
    /\ mlog = <<>>

InitFields ==
    /\ NoMerge
    /\ NoZip
    /\ pc = "ready"
    /\ calls = 0
    /\ field_names \in SUBSET FieldNames
    /\ other_field_names \in SUBSET {"name", "id", "new1"}
    /\ joined_fields \in {None} \cup {PyList(l) : l \in FieldLists}
    /\ keys = <<>>
    /\ forjoinfields_dict = <<>>
    /\ names_before = field_names
    /\ first_dict = None
    /\ dest_layer = <<>>
    /\ src_layer = <<>>
    /\ layer_copy = <<>>
    /\ output_exists = FALSE
    /\ forjoin_features = <<>>
    /\ feature_count = 0
    /\ n = 0
    /\ progress_log = <<>>

\* One call of _set_for_join_fields.
BuildMapping ==
    /\ pc = "ready"
    /\ \E ks \in KeyOrders(joined_fields, other_field_names) :
         LET res == SetForJoinFields(field_names, ks)
         IN  /\ keys' = ks
             /\ forjoinfields_dict' = res.dict
             /\ field_names' = res.field_names
    /\ names_before' = field_names
    /\ first_dict' = IF first_dict = None THEN forjoinfields_dict' ELSE first_dict
    /\ calls' = calls + 1
    /\ pc' = "mapped"
    /\ UNCHANGED <<other_field_names, joined_fields, mvars, jvars, zvars>>

\* The caller comes back with another join on the same handler.
NextMapping ==
    /\ pc = "mapped"
    /\ calls < MaxMapCalls
    /\ pc' = "ready"
    /\ UNCHANGED <<calls, field_names, other_field_names, joined_fields, keys,
                   forjoinfields_dict, names_before, first_dict, mvars, jvars,
                   zvars>>

NextFields == BuildMapping \/ NextMapping

SpecFields == InitFields /\ [][NextFields]_vars

-----------------------------------------------------------------------------
(* spatial_join (lines 113-166) *)

Cells == {1, 2}

\* A geometry is the set of cells it covers; {} is a feature without geometry.
Geometries == SUBSET Cells

\* Destination and source shapes: between them a pair is disjoint ({1}, {2}),
\* destination inside source ({1}, {1,2}), source inside destination
\* ({1,2}, {2}) or equal.
DestGeometries == Geometries \ {{2}}
SrcGeometries == Geometries \ {{1}}

Within(a, b) == a # {} /\ a \subseteq b
Intersect(a, b) == a \cap b # {}

\* Every pair counts as a match.
MatchesAlways(tojoin_geom, forjoin_geom) == TRUE

\* The condition of lines 144-145.
Matches(tojoin_geom, forjoin_geom) ==
    \/ Within(tojoin_geom, forjoin_geom)
    \/ Intersect(tojoin_geom, forjoin_geom)
    \/ Within(forjoin_geom, tojoin_geom)

\* CreateField for every new name: existing features read null in it.
WithFields(layer, new_names) ==
    [i \in 1..Len(layer) |->
        [layer[i] EXCEPT !.attrs =
            [f \in DOMAIN layer[i].attrs \cup new_names |->
                IF f \in DOMAIN layer[i].attrs THEN layer[i].attrs[f] ELSE None]]]

\* features_to_list_of_dict (lines 52-68): the features that have a geometry.
FeaturesToListOfDict(layer) == SelectSeq(layer, LAMBDA f : f.geom # {})

\* Lines 146-156 for one matching source feature: every mapped field, in the
\* dict's order.
RECURSIVE MergeFields(_, _, _, _, _)
MergeFields(attrs, forjoin, ks, dict, separator) ==
    IF ks = <<>> THEN attrs
    ELSE LET field == Head(ks)
             new_field == dict[field]
         IN  MergeFields([attrs EXCEPT ![new_field] =
                             MergeField(attrs[new_field], forjoin.attrs[field],
                                        separator)],
                         forjoin, Tail(ks), dict, separator)

\* Lines 143-156 for one destination feature with geometry: every source
\* feature in list order, merged when it matches.
RECURSIVE JoinFeature(_, _, _, _, _)
JoinFeature(tojoin_feature, forjoins, ks, dict, separator) ==
    IF forjoins = <<>> THEN tojoin_feature
    ELSE LET forjoin == Head(forjoins)
             merged ==
                 IF Matches(tojoin_feature.geom, forjoin.geom)
                 THEN [tojoin_feature EXCEPT !.attrs =
                          MergeFields(tojoin_feature.attrs, forjoin, ks, dict,
                                      separator)]
                 ELSE tojoin_feature
         IN  JoinFeature(merged, Tail(forjoins), ks, dict, separator)

\* Line 159: int((feature_count - n) / feature_count * 100).  The operands are
\* non-negative, so int() is the floor; the float quotient is exact to its
\* integer part for the feature counts modelled.
Progress(count, visited) == ((count - visited) * 100) \div count

-----------------------------------------------------------------------------
(* Specification Spec: spatial_join calls on one destination handler *)

\* The destination has one field, "name"; so has the source.
DestFeatures == {[geom |-> g, attrs |-> [f \in {"name"} |-> PyStr(<<"B">>)]] :
                    g \in DestGeometries}

JoinValues == {PyInt(0), PyStr(<<"a">>), PyStr(<<" ", "b">>)}

SrcFeatures == {[geom |-> g, attrs |-> [f \in {"name"} |-> v]] :
                    g \in SrcGeometries, v \in JoinValues}

SeqsUpTo(S, k) == UNION {[1..m -> S] : m \in 0..k}

Init ==
    /\ NoMerge
    /\ NoZip
    /\ pc = "idle"
    /\ calls = 0
    /\ field_names = {"name"}
    /\ other_field_names = {"name"}
    /\ joined_fields = None            \* every source field is joined
    /\ keys = <<>>
    /\ forjoinfields_dict = <<>>
    /\ names_before = field_names
    /\ first_dict = None
    /\ dest_layer \in SeqsUpTo(DestFeatures, MaxDest)
    /\ src_layer \in SeqsUpTo(SrcFeatures, MaxSrc)
    /\ layer_copy = <<>>
    /\ output_exists = FALSE
    /\ forjoin_features = <<>>
    /\ feature_count = 0
    /\ n = 0
    /\ progress_log = <<>>

\* What a spatial_join call never changes.
fixed == <<other_field_names, joined_fields, dest_layer, src_layer, mvars, zvars>>

\* The frame of the call is gone: its locals are dropped.
DropLocals ==
    /\ keys' = <<>>
    /\ forjoinfields_dict' = <<>>
    /\ forjoin_features' = <<>>
    /\ feature_count' = 0
    /\ n' = 0
    /\ progress_log' = <<>>

\* The except clause of lines 163-166: delete the output if it exists, then
\* re-raise.
Cleanup ==
    /\ output_exists' = FALSE
    /\ layer_copy' = <<>>
    /\ pc' = "raised"
    /\ DropLocals

\* Lines 122-127: a call starts; the output path is one not used before.
StartCall ==
    /\ pc \in {"idle", "done", "raised"}
    /\ calls < MaxCalls
    /\ calls' = calls + 1
    /\ names_before' = field_names
    /\ output_exists' = FALSE
    /\ layer_copy' = <<>>
    /\ DropLocals
    /\ pc' = "copy"
    /\ UNCHANGED <<field_names, first_dict, fixed>>

\* Lines 129-130 with copy_ds (lines 35-39), which run before the try: the
\* copy succeeds, or fails before anything is written, or fails after the
\* output file has been written (CopyLayer or the reopening fails).
CopyDs ==
    /\ pc = "copy"
    /\ \/ /\ output_exists' = TRUE
          /\ layer_copy' = dest_layer
          /\ pc' = "fields"
       \/ /\ output_exists' = FALSE
          /\ layer_copy' = <<>>
          /\ pc' = "raised"
       \/ /\ output_exists' = TRUE
          /\ layer_copy' = dest_layer
          /\ pc' = "raised"
    /\ UNCHANGED <<calls, field_names, keys, forjoinfields_dict, names_before,
                   first_dict, forjoin_features, feature_count, n, progress_log,
                   fixed>>

\* Lines 132-133: the feature count is read and the mapping built; an error
\* inside the loop leaves the names added so far in self._field_names.
SetJoinFields ==
    /\ pc = "fields"
    /\ \E ks \in KeyOrders(joined_fields, other_field_names) :
         \/ LET res == SetForJoinFields(field_names, ks)
            IN  /\ keys' = ks
                /\ forjoinfields_dict' = res.dict
                /\ field_names' = res.field_names
                /\ first_dict' = IF first_dict = None THEN res.dict ELSE first_dict
                /\ layer_copy' = WithFields(layer_copy, Range(res.dict))
                /\ feature_count' = Len(layer_copy)
                /\ pc' = "transform"
                /\ UNCHANGED <<output_exists, forjoin_features, n, progress_log>>
         \/ \E done \in 0..(Len(ks) - 1) :
                /\ field_names' =
                       SetForJoinFields(field_names, SubSeq(ks, 1, done)).field_names
                /\ Cleanup
                /\ UNCHANGED first_dict
    /\ UNCHANGED <<calls, names_before, fixed>>

\* Line 134 (get_transform, line 76): the transform is computed or raises.
GetTransform ==
    /\ pc = "transform"
    /\ \/ /\ pc' = "materialize"
          /\ UNCHANGED <<keys, forjoinfields_dict, layer_copy, output_exists,
                         forjoin_features, feature_count, n, progress_log>>
       \/ Cleanup
    /\ UNCHANGED <<calls, field_names, names_before, first_dict, fixed>>

\* Line 135: the source features are materialized, or reading them raises.
Materialize ==
    /\ pc = "materialize"
    /\ \/ /\ forjoin_features' = FeaturesToListOfDict(src_layer)
          /\ pc' = "loop"
          /\ UNCHANGED <<keys, forjoinfields_dict, layer_copy, output_exists,
                         feature_count, n, progress_log>>
       \/ Cleanup
    /\ UNCHANGED <<calls, field_names, names_before, first_dict, fixed>>

\* Lines 138-161 for the next destination feature: matching and merging when
\* it has a geometry, SetFeature, then the progress value; or an error.
VisitFeature ==
    /\ pc = "loop"
    /\ n < Len(layer_copy)
    /\ \/ LET tojoin_feature == layer_copy[n + 1]
              joined == IF tojoin_feature.geom # {}
                        THEN JoinFeature(tojoin_feature, forjoin_features, keys,
                                         forjoinfields_dict, sep)
                        ELSE tojoin_feature
              progress == Progress(feature_count, n + 1)
          IN  /\ layer_copy' = [layer_copy EXCEPT ![n + 1] = joined]
              /\ n' = n + 1
              /\ progress_log' = Append(progress_log,
                     [n |-> n + 1, progress |-> progress,
                      emitted |-> progress % 10 = 0])
              /\ UNCHANGED <<pc, keys, forjoinfields_dict, output_exists,
                             forjoin_features, feature_count>>
       \/ Cleanup
    /\ UNCHANGED <<calls, field_names, names_before, first_dict, fixed>>

\* Line 162: the iteration is exhausted and the dataset is released.
Flush ==
    /\ pc = "loop"
    /\ n = Len(layer_copy)
    /\ pc' = "done"
    /\ UNCHANGED <<calls, field_names, keys, forjoinfields_dict, names_before,
                   first_dict, layer_copy, output_exists, forjoin_features,
                   feature_count, n, progress_log, fixed>>

Next ==
    \/ StartCall
    \/ CopyDs
    \/ SetJoinFields
    \/ GetTransform
    \/ Materialize
    \/ VisitFeature
    \/ Flush

Spec == Init /\ [][Next]_vars

-----------------------------------------------------------------------------
(* to_zip (lines 168-193) *)

\* The position of the last "." of a name, 0 when it has none.
RECURSIVE LastDot(_)
LastDot(name) ==
    IF name = <<>> THEN 0
    ELSE IF name[Len(name)] = "." THEN Len(name)
    ELSE LastDot(SubSeq(name, 1, Len(name) - 1))

\* name.rsplit('.', 1)[0]
Stem(name) ==
    IF LastDot(name) = 0 THEN name ELSE SubSeq(name, 1, LastDot(name) - 1)

\* name.rsplit('.', 1)[-1] of a name with a dot, else nothing
Ext(name) ==
    IF LastDot(name) = 0 THEN <<>> ELSE SubSeq(name, LastDot(name) + 1, Len(name))

\* name[-4:]
Last4(name) ==
    SubSeq(name, IF Len(name) > 4 THEN Len(name) - 3 ELSE 1, Len(name))

path_to_shp == <<"o", ".", "s", "h", "p">>

\* Line 176.
zipfile_path == Stem(path_to_shp) \o <<".", "z", "i", "p">>

\* Line 179.
file_name == Stem(path_to_shp)

\* The condition of line 183.
IsGeoFile(geo_file) ==
    file_name = Stem(geo_file) /\ Last4(geo_file) # <<".", "z", "i", "p">>

\* The files DeleteDataSource removes: the dataset's shapefile parts.
ShapefileParts(d) ==
    {f \in d : Stem(f) = Stem(path_to_shp)
               /\ Ext(f) \in {<<"s", "h", "p">>, <<"s", "h", "x">>, <<"d", "b", "f">>}}

\* The finally clause of lines 191-193.
Finally(d, delete) ==
    IF path_to_shp \in d /\ delete THEN d \ ShapefileParts(d) ELSE d

\* The except clause of lines 187-190 followed by the finally clause: the
\* directory the caller finds when the error reaches it.
Raise(d, delete) == Finally(d \ {zipfile_path}, delete)

-----------------------------------------------------------------------------
(* Specification SpecZip: one to_zip call on a directory *)

Files == {path_to_shp,
          <<"o", ".", "d", "b", "f">>,
          <<"o", ".", "z", "i", "p">>,
          <<"p", ".", "s", "h", "p">>,
          <<"o">>}

InitZip ==
    /\ NoMerge
    /\ NoHandler
    /\ zpc = "open"
    /\ zdir \in SUBSET Files
    /\ delete_files \in BOOLEAN
    /\ todo = {}
    /\ archive = {}
    /\ originals = ShapefileParts(zdir)

\* Line 178 and the listing of line 182: the archive is created (replacing an
\* older one) and the directory listed, or opening it raises.
ZipOpen ==
    /\ zpc = "open"
    /\ \/ /\ zdir' = zdir \cup {zipfile_path}
          /\ todo' = zdir \cup {zipfile_path}
          /\ zpc' = "write"
       \/ /\ zdir' = Raise(zdir, delete_files)
          /\ todo' = {}
          /\ zpc' = "raised"
    /\ UNCHANGED <<delete_files, archive, originals, mvars, fvars, jvars>>

\* Lines 182-185 for the next directory entry: written when it belongs to the
\* dataset, skipped otherwise; the write may raise.
ZipWrite ==
    /\ zpc = "write"
    /\ \E geo_file \in todo :
         \/ /\ todo' = todo \ {geo_file}
            /\ archive' = IF IsGeoFile(geo_file) THEN archive \cup {geo_file}
                          ELSE archive
            /\ UNCHANGED <<zpc, zdir>>
         \/ /\ IsGeoFile(geo_file)
            /\ zdir' = Raise(zdir, delete_files)
            /\ todo' = {}
            /\ archive' = {}
            /\ zpc' = "raised"
    /\ UNCHANGED <<delete_files, originals, mvars, fvars, jvars>>

\* Line 186, then the finally clause: the archive is closed, or closing raises.
ZipClose ==
    /\ zpc = "write"
    /\ todo = {}
    /\ \/ /\ zdir' = Finally(zdir, delete_files)
          /\ zpc' = "returned"
          /\ UNCHANGED archive
       \/ /\ zdir' = Raise(zdir, delete_files)
          /\ archive' = {}
          /\ zpc' = "raised"
    /\ UNCHANGED <<delete_files, todo, originals, mvars, fvars, jvars>>

NextZip == ZipOpen \/ ZipWrite \/ ZipClose

SpecZip == InitZip /\ [][NextZip]_vars

\* C9: the original dataset files are deleted only when the archive was
\* created and delete_files is true: when archive creation fails the archive
\* is gone and the originals are still present, and without delete_files the
\* originals are never deleted.
C9_DeleteOnlyOnSuccess ==
    /\ zpc = "raised" => (zipfile_path \notin zdir /\ originals \subseteq zdir)
    /\ ~delete_files => originals \subseteq zdir
    /\ ~(originals \subseteq zdir) => (zpc = "returned" /\ delete_files)

-----------------------------------------------------------------------------
(* Claims about the merge step *)

\* "Non-empty" as the specification words it: a value that is not null and
\* whose string form has at least one character.
NonEmpty(x) == x.t # "none" /\ str(x) # <<>>

\* The orders of a list of strings that are ascending case-insensitively.
AscendingOrders(strs) ==
    {p \in [1..Len(strs) -> 1..Len(strs)] :
        /\ \A i, j \in 1..Len(strs) : i # j => p[i] # p[j]
        /\ \A i, j \in 1..Len(strs) :
              i < j => ~StrLess(lower(strs[p[j]]), lower(strs[p[i]]))}

\* What claim C4 says one merge step leaves in the field.
MergeAsClaimed(e, v, separator, r) ==
    IF NonEmpty(v) /\ NonEmpty(e) /\ Contains(str(e), str(v))
    THEN r = e
    ELSE LET both == <<e, v>>
             kept == SelectSeq(both, NonEmpty)
             strs == [i \in 1..Len(kept) |-> str(kept[i])]
         IN  \E p \in AscendingOrders(strs) :
                r = PyStr(strip(Join(separator \o <<" ">>,
                                     [i \in 1..Len(strs) |-> strs[p[i]]])))

\* C4: every merge step leaves the field unchanged when the incoming value is
\* non-empty and already a substring of the non-empty current value, and
\* otherwise sets it to the non-empty values among the current value and the
\* stringified incoming value, sorted case-insensitively, joined by the
\* separator and a space, and stripped.
C4_MergeStepAsClaimed ==
    \A i \in 1..Len(mlog) : MergeAsClaimed(mlog[i].e, mlog[i].v, sep, mlog[i].r)

\* C5: applying the same incoming value a second time leaves the field as it
\* was after the first application: merge(merge(e, v), v) = merge(e, v).
C5_MergeIdempotent ==
    \A i \in 1..(Len(mlog) - 1) :
        mlog[i].v = mlog[i + 1].v => mlog[i + 1].r = mlog[i].r

-----------------------------------------------------------------------------
(* Claims about the field mapping *)

Injective(f) == \A x, y \in DOMAIN f : f[x] = f[y] => x = y

\* C2: after _set_for_join_fields the destination schema has grown by exactly
\* the number of mapped fields, every mapped destination name is in the schema
\* afterwards and was not in it before, and no two source fields share a
\* destination name.
C2_SchemaGrowth ==
    pc = "mapped" =>
        /\ Cardinality(field_names) =
               Cardinality(names_before) + Cardinality(DOMAIN forjoinfields_dict)
        /\ \A f \in DOMAIN forjoinfields_dict :
               /\ forjoinfields_dict[f] \in field_names
               /\ forjoinfields_dict[f] \notin names_before
        /\ Injective(forjoinfields_dict)

\* Two or more source fields, every one colliding with the schema, mapped by
\* the second call on the same handler.
C2_Witness ==
    /\ pc = "mapped"
    /\ calls = 2
    /\ Len(keys) >= 2
    /\ \A i \in 1..Len(keys) : keys[i] \in names_before

\* The algorithm as specified: the candidate starts as the field's own name;
\* while it is in the live schema it is replaced by "new" + N, N a counter
\* that starts at 1, grows by 1 on each collision and is never reset.
RECURSIVE SpecifiedCandidate(_, _, _)
SpecifiedCandidate(candidate, N, schema) ==
    IF candidate \in schema
    THEN SpecifiedCandidate(NewName(N), N + 1, schema)
    ELSE [name |-> candidate, N |-> N]

RECURSIVE SpecifiedMappingFrom(_, _, _, _)
SpecifiedMappingFrom(fs, N, schema, mapping) ==
    IF fs = <<>> THEN mapping
    ELSE LET c == SpecifiedCandidate(Head(fs), N, schema)
         IN  SpecifiedMappingFrom(Tail(fs), c.N, schema \cup {c.name},
                                  mapping @@ (Head(fs) :> c.name))

SpecifiedMapping(schema, fs) == SpecifiedMappingFrom(fs, 1, schema, <<>>)

\* C3: the mapping _set_for_join_fields produces equals the mapping of the
\* specified algorithm with one collision counter shared across the build, and
\* destination {"name"} with source ["name", "id"] gives name -> new1, id -> id.
C3_MappingAsSpecified ==
    pc = "mapped" =>
        /\ forjoinfields_dict = SpecifiedMapping(names_before, keys)
        /\ (names_before = {"name"} /\ keys = <<"name", "id">>) =>
               forjoinfields_dict = ("name" :> "new1" @@ "id" :> "id")

\* Two colliding source fields with new1 already taken: the generated names
\* are new2 and then new3.
C3_Witness ==
    /\ pc = "mapped"
    /\ Len(keys) = 2
    /\ "new1" \in names_before
    /\ forjoinfields_dict[keys[1]] = "new2"
    /\ forjoinfields_dict[keys[2]] = "new3"

-----------------------------------------------------------------------------
(* Claims about spatial_join *)

\* C1: when an error raised anywhere in steps 1-6 (the copy included) reaches
\* the caller, the output dataset file does not exist.
C1_NoOutputAfterError == pc = "raised" => ~output_exists

\* The source features a destination geometry is in spatial relation with:
\* destination within source, intersecting, or source within destination.
Related(dest_geom, src_geom) ==
    /\ dest_geom # {}
    /\ src_geom # {}
    /\ \/ dest_geom \subseteq src_geom
       \/ dest_geom \cap src_geom # {}
       \/ src_geom \subseteq dest_geom

Unset(x) == x = None \/ x = PyStr(<<>>)

\* C6: a successful join keeps the destination's features, as many and in the
\* same order; a feature without geometry keeps its attributes and has the
\* join fields null; a feature whose geometry is disjoint from every source
\* geometry keeps its attributes and has every mapped join field unset.
C6_FeaturesRetained ==
    pc = "done" =>
        /\ Len(layer_copy) = Len(dest_layer)
        /\ \A i \in 1..Len(dest_layer) :
              /\ layer_copy[i].geom = dest_layer[i].geom
              /\ dest_layer[i].geom = {} =>
                    /\ \A f \in DOMAIN dest_layer[i].attrs :
                           layer_copy[i].attrs[f] = dest_layer[i].attrs[f]
                    /\ \A f \in DOMAIN forjoinfields_dict :
                           layer_copy[i].attrs[forjoinfields_dict[f]] = None
              /\ (/\ dest_layer[i].geom # {}
                  /\ \A j \in 1..Len(src_layer) :
                         dest_layer[i].geom \cap src_layer[j].geom = {}) =>
                    /\ \A f \in DOMAIN dest_layer[i].attrs :
                           layer_copy[i].attrs[f] = dest_layer[i].attrs[f]
                    /\ \A f \in DOMAIN forjoinfields_dict :
                           Unset(layer_copy[i].attrs[forjoinfields_dict[f]])

\* A finished join of a destination with one feature without geometry and one
\* feature disjoint from a source feature that carries a value.
C6_Witness ==
    /\ pc = "done"
    /\ \E i \in 1..Len(dest_layer) : dest_layer[i].geom = {}
    /\ \E i \in 1..Len(dest_layer) :
          /\ dest_layer[i].geom # {}
          /\ \A j \in 1..Len(src_layer) :
                dest_layer[i].geom \cap src_layer[j].geom = {}
          /\ \E j \in 1..Len(src_layer) :
                /\ src_layer[j].geom # {}
                /\ src_layer[j].attrs["name"] = PyStr(<<"a">>)

\* C7: once a destination feature with geometry has been processed, for every
\* source feature in spatial relation with it and every mapped field whose
\* source value is non-empty, the field holds a string that contains the
\* stringified source value.
C7_AllMatchesContribute ==
    pc \in {"loop", "done"} =>
        \A i \in 1..n : \A j \in 1..Len(src_layer) :
            Related(dest_layer[i].geom, src_layer[j].geom) =>
                \A f \in DOMAIN forjoinfields_dict :
                    NonEmpty(src_layer[j].attrs[f]) =>
                        LET cur == layer_copy[i].attrs[forjoinfields_dict[f]]
                        IN  /\ cur.t = "str"
                            /\ Contains(cur.v, str(src_layer[j].attrs[f]))

\* C8: the percentage computed after each feature is the share of features
\* completed, (D - remaining) / D * 100 with remaining = D - n; a sample is
\* emitted exactly when it is a multiple of 10; the percentages never decrease.
C8_ProgressIsCompletedShare ==
    \A i \in 1..Len(progress_log) :
        /\ progress_log[i].progress =
               ((feature_count - (feature_count - progress_log[i].n)) * 100)
                   \div feature_count
        /\ progress_log[i].emitted <=> (progress_log[i].progress % 10 = 0)
        /\ i > 1 => progress_log[i - 1].progress <= progress_log[i].progress

\* C10: after any spatial_join call the handler's own field-name set equals
\* what it was before the call, and every call builds the mapping the first
\* call built.
C10_SchemaNotCarriedOver ==
    pc \in {"done", "raised"} =>
        /\ field_names = names_before
        /\ pc = "done" => forjoinfields_dict = first_dict

====
